---- MODULE Spec2Model ----
(***************************************************************************)
(* Model of the AzimuthalMap component (latest revision, the first         *)
(* component of src/unnamed/part_003, lines 1-281): rotation and zoom      *)
(* state driven by Hammer pan/pinch events and by the d3 zoom behaviour,   *)
(* the one dataset fetch issued at mount, and what each handler redraws.   *)
(*                                                                         *)
(* Numbers are fixed point.  Degrees and the zoom scale k are integers in  *)
(* units of 1/Fix, so -13.27 degrees is -132700 and k = 1 is 10000.        *)
(* Pixel deltas are integers, as Hammer reports them.                      *)
(***************************************************************************)
EXTENDS Integers, Sequences, FiniteSets, TLC

\* ------------------------------------------------------------------ bounds
\* number of gesture events (pan, pinch, wheel) dispatched in one behaviour
MaxEvents == 5

\* --------------------------------------------------------- fixed point unit
Fix == 100 * 100

\* ------------------------------------------------------- program constants
height == 800
width == 800
\* scaleExtent([0.5632, 8]) and the same two literals in the pinch handler
KMin == 5632
KMax == 80000
\* Math.max(-90, Math.min(90, ...))
PitchMin == -900000
PitchMax == 900000
\* const baseK = 0.3
baseK == 3000
\* useRef([-13.27, -58.33, 0]) and useState([-13.27, -58.33])
InitYaw == -132700
InitPitch == -583300
\* d3.zoomIdentity.k, and let initialScale = 1
IdentityK == 10000

\* ------------------------------------------------------------------ inputs
\* cumulative (deltaX, deltaY) of a Hammer pan event, in pixels
PanDeltas == { <<0, 0>>, <<40, 0>>, <<100, 150>>, <<0, -120>>, <<-900, -700>> }
\* ev.scale of a Hammer pinch event, as a fraction <<num, den>>
PinchRatios == { <<1, 1>>, <<1, 2>>, <<3, 1>>, <<1, 100>>, <<50, 1>> }
\* 2^wheelDelta of a wheel event on the zoom behaviour, as <<num, den>>
WheelFactors == { <<1, 2>>, <<2, 1>>, <<100, 1>>, <<1, 100>> }
\* what the dataset request produces when it settles
FetchOutcomes == { "topology", "empty", "malformed", "rejected" }

VARIABLES
    mounted,      \* svgRef.current is the svg element (null after unmount)
    fetch,        \* "pending" | "loaded" | "failed" | "ignored"
    rotation,     \* rotationRef.current, <<yaw, pitch, roll>>
    zoomK,        \* zoomRef.current.k
    coordinates,  \* the coordinates React state, <<yaw, pitch>>
    lastDelta,    \* <<lastDeltaX, lastDeltaY>> of the success handler
    initialScale, \* initialScale of the success handler
    projection,   \* [rotate, scale] of the d3 projection
    gScale,       \* the k of g's "transform" attribute, 0 while unset
    shapes,       \* << >>, or << [rotate, scale] >> the paths and labels were drawn with
    scene,        \* what else the svg holds: background, outline, tick ring
    errors,       \* number of console.error calls
    unhandled,    \* a rejection escaped the promise chain
    panning,      \* Hammer has emitted panstart
    pinching,     \* Hammer has emitted pinchstart
    gesture,      \* history of the current pan gesture: rotation and zoom at
                  \* panstart, ticks so far, whether every tick ran at that
                  \* zoom (level) and also without clamping (exact)
    lastOp,       \* history: the handler that ran last, with its input
    events        \* number of gesture events dispatched so far

vars == << mounted, fetch, rotation, zoomK, coordinates, lastDelta,
           initialScale, projection, gScale, shapes, scene, errors,
           unhandled, panning, pinching, gesture, lastOp, events >>

\* ----------------------------------------------------------------- helpers
Max(a, b) == IF a >= b THEN a ELSE b
Min(a, b) == IF a <= b THEN a ELSE b

RECURSIVE SqrtSearch(_, _, _)
SqrtSearch(n, lo, hi) ==
    IF lo >= hi THEN lo
    ELSE LET mid == (lo + hi + 1) \div 2
         IN  IF mid * mid <= n THEN SqrtSearch(n, mid, hi)
                               ELSE SqrtSearch(n, lo, mid - 1)

\* Math.sqrt(zoomRef.current.k), in units of 1/Fix
zoomFactor(k) == SqrtSearch(k * Fix, 0, 3 * Fix)

\* const k = baseK / zoomFactor, degrees (1/Fix) per pixel
panK(k) == (baseK * Fix) \div zoomFactor(k)

\* the cumulative delta of the event taken for the increment
panDeltaCumulative(ev, last) == ev

\* const deltaX = ev.deltaX - lastDeltaX (and deltaY likewise)
panDelta(ev, last) == << ev[1] - last[1], ev[2] - last[2] >>

\* y - deltaY * k, before the clamp
rawPitch(y, dY, k) == y - dY * k

\* the pan handler of the earlier revisions: no clamp on the pitch
clampPitchNone(v) == v

\* Math.max(-90, Math.min(90, v))
clampPitch(v) == Max(PitchMin, Min(PitchMax, v))

\* the roll of the previous rotation carried along with the yaw increment
newRotationRoll(rot, d, k) ==
    << rot[1] + d[1] * k, clampPitch(rawPitch(rot[2], d[2], k)),
       rot[3] + d[1] * k >>

\* the yaw normalised into [-180, 180] the way the pitch is clamped
newRotationYawClamped(rot, d, k) ==
    << Max(2 * PitchMin, Min(2 * PitchMax, rot[1] + d[1] * k)),
       clampPitch(rawPitch(rot[2], d[2], k)), 0 >>

\* rotationRef.current = [newX, newY, 0]
newRotation(rot, d, k) ==
    << rot[1] + d[1] * k, clampPitch(rawPitch(rot[2], d[2], k)), 0 >>

\* the readout fed latitude first
newCoordinatesSwapped(rot) == << rot[2], rot[1] >>

\* setCoordinates([newX, newY])
newCoordinates(rot) == << rot[1], rot[2] >>

\* a zoom behaviour whose extent has no lower end
scaleExtentNoMin(k) == Min(KMax, k)

\* d3 zoom constrains every scale it applies to scaleExtent
scaleExtent(k) == Max(KMin, Min(KMax, k))

\* the clamp with Math.max and Math.min exchanged
pinchScaleSwapped(base, r) == Min(KMin, Max(KMax, (base * r[1]) \div r[2]))

\* the ratio applied to the current scale instead of the captured baseline
pinchScaleCurrent(base, r) == Max(KMin, Min(KMax, (zoomK * r[1]) \div r[2]))

\* Math.max(0.5632, Math.min(8, initialScale * ev.scale))
pinchScale(base, r) == Max(KMin, Min(KMax, (base * r[1]) \div r[2]))

\* the scale the wheel handler of d3 zoom asks for: k * 2^wheelDelta
wheelScale(k, f) == scaleExtent((k * f[1]) \div f[2])

\* the projection left at its base radius, transform.k forgotten
projScaleBase(k) == ((height - 20) \div 2) * IdentityK

\* projection.scale(((height - 20) / 2) * transform.k)
projScale(k) == ((height - 20) \div 2) * k

\* the point the group's transform maps a pixel p to, in units of 1/Fix:
\* translate(width/2, height/2) scale(k) translate(-width/2, -height/2)
groupTransform(k, p) ==
    << (width \div 2) * Fix + k * (p[1] - width \div 2),
       (height \div 2) * Fix + k * (p[2] - height \div 2) >>

\* the scale the group is shown at: the identity until the attribute is set
groupScale(gk) == IF gk = 0 THEN IdentityK ELSE gk

\* the projection rotated but the paths and labels left as drawn
updateMapNoRedraw(proj, rot, shp) ==
    [ projection |-> [proj EXCEPT !.rotate = rot], shapes |-> shp ]

\* updateMap(): rotate the projection, then recompute every path and label
updateMap(proj, rot, shp) ==
    LET p == [proj EXCEPT !.rotate = rot]
    IN  [ projection |-> p,
          shapes |-> IF shp = << >> THEN << >>
                     ELSE << [rotate |-> p.rotate, scale |-> p.scale] >> ]

\* the for loop of degreesGroup
tickDegrees == { i \in 0..359 : i % 5 = 0 }
tickLines == Cardinality(tickDegrees)
tickLabels == Cardinality({ i \in tickDegrees : i % 10 = 0 })

\* const outerRadius = (height - 20) / 2, in hundredths of a pixel
outerRadius == ((height - 20) \div 2) * 100

\* the tiers tested from the finest up, so that the first two never match
innerRadiusFinestFirst(i) ==
    IF i % 10 = 0 THEN (outerRadius * 64) \div 100
    ELSE IF i % 30 = 0 THEN (outerRadius * 34) \div 100
    ELSE IF i % 60 = 0 THEN (outerRadius * 5) \div 100
    ELSE (outerRadius * 80) \div 100

\* the if / else if chain that sets innerRadius, in hundredths of a pixel
innerRadius(i) ==
    IF i % 60 = 0 THEN (outerRadius * 5) \div 100
    ELSE IF i % 30 = 0 THEN (outerRadius * 34) \div 100
    ELSE IF i % 10 = 0 THEN (outerRadius * 64) \div 100
    ELSE (outerRadius * 80) \div 100

\* for (let i = 0; i < 360; i += 5): one line from innerRadius to outerRadius
\* at angle i, and a text when i % 10 === 0
RECURSIVE degreesLoop(_, _)
degreesLoop(i, group) ==
    IF i < 360
    THEN degreesLoop(i + 5,
             group \cup { [ i |-> i, r1 |-> innerRadius(i), r2 |-> outerRadius,
                            text |-> (i % 10 = 0) ] })
    ELSE group

\* the svg after the effect body: the clipped background rect, nothing else
mountScene == [ background |-> TRUE, outline |-> FALSE,
                lines |-> 0, labels |-> 0, ring |-> { } ]

\* the success handler appends the outline circle and the tick ring
loadedScene(sc) == [ sc EXCEPT !.outline = TRUE,
                               !.lines = tickLines, !.labels = tickLabels,
                               !.ring = degreesLoop(0, { }) ]

\* the success handler of the first revision: no check of svgRef.current
unmountedGuardNone(m) == FALSE

\* if (!svgRef.current) return;
unmountedGuard(m) == ~m

\* the baseline left as it was after a tick
nextLastDeltaStale(ev) == lastDelta

\* lastDeltaX = ev.deltaX; lastDeltaY = ev.deltaY
nextLastDelta(ev) == ev

\* Hammer set up in the effect body, next to svg.call(zoom)
handlersInstalledAtMount(f) == TRUE

\* new Hammer(svgRef.current) and its four hammer.on calls run in the success
\* handler only
handlersInstalled(f) == f = "loaded"

\* ------------------------------------------------------------------- state
Init ==
    /\ mounted = TRUE
    /\ fetch = "pending"
    /\ rotation = << InitYaw, InitPitch, 0 >>
    /\ zoomK = IdentityK
    /\ coordinates = << InitYaw, InitPitch >>
    /\ lastDelta = << 0, 0 >>
    /\ initialScale = IdentityK
    /\ projection = [ rotate |-> << InitYaw, InitPitch, 0 >>,
                      scale  |-> projScale(IdentityK) ]
    /\ gScale = 0
    /\ shapes = << >>
    /\ scene = mountScene
    /\ errors = 0
    /\ unhandled = FALSE
    /\ panning = FALSE
    /\ pinching = FALSE
    /\ gesture = [ yaw |-> InitYaw, pitch |-> InitPitch, k |-> IdentityK,
                   n |-> 0, exact |-> TRUE, level |-> TRUE ]
    /\ lastOp = [ op |-> "mount", a |-> 0, b |-> 0, k |-> IdentityK ]
    /\ events = 0

\* the "zoom" listener of the zoom behaviour, called with transform.k = k
zoomed(k) ==
    LET p == [projection EXCEPT !.scale = projScale(k)]
        u == updateMap(p, rotation, shapes)
    IN  /\ zoomK' = k
        /\ gScale' = k
        /\ projection' = u.projection
        /\ shapes' = u.shapes

\* a wheel event on the svg; d3 zoom emits nothing when k does not change
Wheel(f) ==
    /\ mounted
    /\ events < MaxEvents
    /\ wheelScale(zoomK, f) # zoomK
    /\ zoomed(wheelScale(zoomK, f))
    /\ lastOp' = [ op |-> "wheel", a |-> f[1], b |-> f[2], k |-> zoomK ]
    /\ events' = events + 1
    /\ UNCHANGED << mounted, fetch, rotation, coordinates, lastDelta,
                    initialScale, scene, errors, unhandled, panning,
                    pinching, gesture >>

\* a mouse drag on the svg: d3 zoom translates the transform and emits a zoom
\* event whose k is the current one
ZoomDrag ==
    /\ mounted
    /\ events < MaxEvents
    /\ zoomed(scaleExtent(zoomK))
    /\ lastOp' = [ op |-> "zoomdrag", a |-> 0, b |-> 0, k |-> zoomK ]
    /\ events' = events + 1
    /\ UNCHANGED << mounted, fetch, rotation, coordinates, lastDelta,
                    initialScale, scene, errors, unhandled, panning,
                    pinching, gesture >>

\* a panstart handler that also captures the zoom baseline, as pinchstart does
PanStartCapture ==
    /\ mounted
    /\ handlersInstalled(fetch)
    /\ events < MaxEvents
    /\ lastDelta' = << 0, 0 >>
    /\ initialScale' = zoomK
    /\ panning' = TRUE
    /\ gesture' = [ yaw |-> rotation[1], pitch |-> rotation[2], k |-> zoomK,
                    n |-> 0, exact |-> TRUE, level |-> TRUE ]
    /\ lastOp' = [ op |-> "panstart", a |-> 0, b |-> 0, k |-> zoomK ]
    /\ events' = events + 1
    /\ UNCHANGED << mounted, fetch, rotation, zoomK, coordinates,
                    projection, gScale, shapes, scene, errors,
                    unhandled, pinching >>

\* hammer.on("panstart")
PanStart ==
    /\ mounted
    /\ handlersInstalled(fetch)
    /\ events < MaxEvents
    /\ lastDelta' = << 0, 0 >>
    /\ panning' = TRUE
    /\ gesture' = [ yaw |-> rotation[1], pitch |-> rotation[2], k |-> zoomK,
                    n |-> 0, exact |-> TRUE, level |-> TRUE ]
    /\ lastOp' = [ op |-> "panstart", a |-> 0, b |-> 0, k |-> zoomK ]
    /\ events' = events + 1
    /\ UNCHANGED << mounted, fetch, rotation, zoomK, coordinates,
                    initialScale, projection, gScale, shapes, scene, errors,
                    unhandled, pinching >>

\* hammer.on("panmove")
PanMove(ev) ==
    /\ mounted
    /\ handlersInstalled(fetch)
    /\ panning
    /\ events < MaxEvents
    /\ LET k == panK(zoomK)
           d == panDelta(ev, lastDelta)
           r == newRotation(rotation, d, k)
           u == updateMap(projection, r, shapes)
       IN  /\ rotation' = r
           /\ coordinates' = newCoordinates(r)
           /\ projection' = u.projection
           /\ shapes' = u.shapes
           /\ gesture' = [ gesture EXCEPT
                  !.n = @ + 1,
                  !.level = @ /\ zoomK = gesture.k,
                  !.exact = /\ @
                            /\ zoomK = gesture.k
                            /\ rawPitch(rotation[2], d[2], k) >= PitchMin
                            /\ rawPitch(rotation[2], d[2], k) <= PitchMax ]
           /\ lastOp' = [ op |-> "panmove", a |-> d[1], b |-> d[2], k |-> zoomK ]
    /\ lastDelta' = nextLastDelta(ev)
    /\ events' = events + 1
    /\ UNCHANGED << mounted, fetch, zoomK, initialScale, gScale, scene,
                    errors, unhandled, panning, pinching >>

\* hammer.on("pinchstart")
PinchStart ==
    /\ mounted
    /\ handlersInstalled(fetch)
    /\ events < MaxEvents
    /\ initialScale' = zoomK
    /\ pinching' = TRUE
    /\ lastOp' = [ op |-> "pinchstart", a |-> 0, b |-> 0, k |-> zoomK ]
    /\ events' = events + 1
    /\ UNCHANGED << mounted, fetch, rotation, zoomK, coordinates, lastDelta,
                    projection, gScale, shapes, scene, errors, unhandled,
                    panning, gesture >>

\* hammer.on("pinch"): zoom.scaleTo(svg, scale) always emits a zoom event
Pinch(r) ==
    /\ mounted
    /\ handlersInstalled(fetch)
    /\ pinching
    /\ events < MaxEvents
    /\ zoomed(scaleExtent(pinchScale(initialScale, r)))
    /\ lastOp' = [ op |-> "pinch", a |-> r[1], b |-> r[2], k |-> zoomK ]
    /\ events' = events + 1
    /\ UNCHANGED << mounted, fetch, rotation, coordinates, lastDelta,
                    initialScale, scene, errors, unhandled, panning,
                    pinching, gesture >>

\* .catch((error) => console.error(...))
catch == /\ errors' = errors + 1
         /\ UNCHANGED unhandled

\* the dataset request settles: .then(...).catch(...)
FetchSettle(o) ==
    /\ fetch = "pending"
    /\ IF o = "rejected"
       THEN /\ fetch' = "failed"
            /\ catch
            /\ UNCHANGED << shapes, scene, lastDelta, initialScale >>
       ELSE IF unmountedGuard(mounted)
       THEN \* if (!svgRef.current) return;
            /\ fetch' = "ignored"
            /\ UNCHANGED << shapes, scene, lastDelta, initialScale, errors,
                            unhandled >>
       ELSE IF o # "topology"
       THEN \* throw new Error(...), or topojson.feature throws
            /\ fetch' = "failed"
            /\ catch
            /\ UNCHANGED << shapes, scene, lastDelta, initialScale >>
       ELSE /\ fetch' = "loaded"
            /\ shapes' = << [ rotate |-> projection.rotate,
                              scale  |-> projection.scale ] >>
            /\ lastDelta' = << 0, 0 >>
            /\ initialScale' = IdentityK
            /\ scene' = loadedScene(scene)
            /\ UNCHANGED << errors, unhandled >>
    /\ lastOp' = [ op |-> "settle", a |-> 0, b |-> 0, k |-> zoomK ]
    /\ UNCHANGED << mounted, rotation, zoomK, coordinates, projection,
                    gScale, panning, pinching, gesture, events >>

\* React detaches the ref when the component unmounts; the effect returns no
\* cleanup, so nothing else happens
Unmount ==
    /\ mounted
    /\ mounted' = FALSE
    /\ lastOp' = [ op |-> "unmount", a |-> 0, b |-> 0, k |-> zoomK ]
    /\ UNCHANGED << fetch, rotation, zoomK, coordinates, lastDelta,
                    initialScale, projection, gScale, shapes, scene, errors,
                    unhandled, panning, pinching, gesture, events >>

Next ==
    \/ \E f \in WheelFactors : Wheel(f)
    \/ ZoomDrag
    \/ PanStart
    \/ \E ev \in PanDeltas : PanMove(ev)
    \/ PinchStart
    \/ \E r \in PinchRatios : Pinch(r)
    \/ \E o \in FetchOutcomes : FetchSettle(o)
    \/ Unmount

Spec == Init /\ [][Next]_vars

\* ------------------------------------------------------------------ claims

\* C1: in every reachable state the pitch (second element of rotation) lies
\* in [-90, 90], whatever pan, pinch and wheel events occurred; the yaw is
\* not clamped (the witness has it beyond -180).
C1_PitchClamped ==
    /\ rotation[2] >= PitchMin
    /\ rotation[2] <= PitchMax

\* a pan tick drove the pitch into the upper clamp and the yaw past -180
C1_Witness ==
    /\ lastOp.op = "panmove"
    /\ rotation[2] = PitchMax
    /\ rotation[1] < -2 * PitchMax

\* C2: in every reachable state the zoom scale k satisfies
\* 0.5632 <= k <= 8, whatever wheel, pinchstart, pinch and pan events occurred.
C2_ZoomInExtent ==
    /\ KMin <= zoomK
    /\ zoomK <= KMax

\* from the upper limit, a pinch of ratio 1/100 ended on the lower limit
C2_Witness ==
    /\ lastOp.op = "pinch"
    /\ lastOp.b = 100
    /\ lastOp.k = KMax
    /\ zoomK = KMin

\* C3: on fetch failure (the request rejects or yields no topology) nothing
\* escapes the promise chain, exactly one error is logged, no country shape
\* is drawn, and the svg holds both the background disk and the tick ring.
C3_FailureScaffold ==
    fetch = "failed" =>
        /\ ~unhandled
        /\ errors = 1
        /\ shapes = << >>
        /\ scene.background
        /\ scene.lines = tickLines
        /\ scene.labels = tickLabels

\* C4: a pan tick whose cumulative deltas equal the stored last deltas
\* (incremental delta (0, 0)) leaves rotation unchanged, at every rotation
\* and zoom level.
C4_ZeroTick ==
    [][ \A ev \in PanDeltas :
          (PanMove(ev) /\ ev = lastDelta) => rotation' = rotation ]_vars

\* a zero tick arrived at a nonzero cumulative delta, zoomed, pitch on the clamp
C4_Witness ==
    /\ lastOp.op = "panmove"
    /\ lastOp.a = 0
    /\ lastOp.b = 0
    /\ lastDelta # << 0, 0 >>
    /\ zoomK # IdentityK
    /\ rotation[2] = PitchMax

\* C5: a pinch tick of ratio 1.0 leaves the zoom scale equal to the baseline
\* captured at the preceding pinchstart.
C5_UnitPinch ==
    [][ Pinch(<< 1, 1 >>) => zoomK' = initialScale ]_vars

\* a unit pinch restored the baseline 0.5632 after the scale had moved off it
C5_Witness ==
    /\ lastOp.op = "pinch"
    /\ lastOp.a = 1
    /\ lastOp.b = 1
    /\ lastOp.k # initialScale
    /\ initialScale = KMin
    /\ zoomK = KMin

\* C6, as stated: when the request resolves with a topology after the
\* component unmounted, the post-fetch updates still run: shapes are added,
\* the gesture handlers are installed and the tick ring is drawn.
C6_UnguardedResolve ==
    [][ (~mounted /\ FetchSettle("topology")) =>
            /\ shapes' # << >>
            /\ fetch' = "loaded"
            /\ scene'.lines = tickLines ]_vars

\* C6, amended: the request is not cancelled and still settles after the
\* unmount, but the success handler returns at its svgRef.current check:
\* no shape, handler or tick mark is added; a rejection is still logged.
C6_GuardedResolve ==
    [][ /\ \A o \in FetchOutcomes \ { "rejected" } :
             (~mounted /\ FetchSettle(o)) =>
                 /\ fetch' = "ignored"
                 /\ shapes' = shapes
                 /\ scene' = scene
                 /\ errors' = errors
        /\ (~mounted /\ FetchSettle("rejected")) =>
                 /\ fetch' = "failed"
                 /\ shapes' = shapes
                 /\ scene' = scene
                 /\ errors' = errors + 1 ]_vars

\* the request settled after the unmount and its handler did nothing
C6_Witness ==
    /\ ~mounted
    /\ fetch = "ignored"
    /\ lastOp.op = "settle"
    /\ shapes = << >>
    /\ scene = mountScene

\* C7: between callbacks the coordinates shown equal the first two
\* components of rotation.
C7_ReadoutFollows ==
    coordinates = << rotation[1], rotation[2] >>

\* after a pan tick that moved both components and clamped the pitch
C7_Witness ==
    /\ lastOp.op = "panmove"
    /\ coordinates[1] # InitYaw
    /\ coordinates[2] = PitchMin

\* C8: the roll (third element of rotation) is 0 in every reachable state.
C8_RollZero ==
    rotation[3] = 0

\* after two or more ticks of a gesture that turned the globe
C8_Witness ==
    /\ lastOp.op = "panmove"
    /\ gesture.n >= 2
    /\ rotation[1] # InitYaw
    /\ rotation[2] # InitPitch
    /\ rotation[3] = 0

\* C9: within one pan gesture at a constant zoom, while the pitch was never
\* clamped, the rotation is the rotation at panstart plus 0.3/sqrt(k) times
\* the cumulative delta of the last tick (minus, for the pitch), however
\* many ticks the movement was split into.
C9_NetPan ==
    (panning /\ gesture.exact) =>
        /\ rotation[1] = gesture.yaw + panK(gesture.k) * lastDelta[1]
        /\ rotation[2] = gesture.pitch - panK(gesture.k) * lastDelta[2]

\* three ticks of one gesture at a zoom other than 1, ending off the start
C9_Witness ==
    /\ panning
    /\ gesture.exact
    /\ gesture.n >= 3
    /\ gesture.k # IdentityK
    /\ lastDelta[1] # 0
    /\ lastDelta[2] # 0

\* C10: pinchstart captures the zoom scale as the baseline; after a pinch
\* tick of ratio r the scale is min(8, max(0.5632, baseline * r)) whatever
\* it was just before the tick, and the tick leaves the baseline alone, so
\* repeating it gives the same scale.
C10_PinchFromBaseline ==
    [][ /\ PinchStart => initialScale' = zoomK
        /\ \A r \in PinchRatios :
              Pinch(r) =>
                  /\ zoomK' = Min(KMax, Max(KMin, (initialScale * r[1]) \div r[2]))
                  /\ initialScale' = initialScale
        /\ (ZoomDrag \/ \E f \in WheelFactors : Wheel(f)) =>
                  initialScale' = initialScale ]_vars

\* a pinch of ratio 3 overwrote a scale that a wheel step had moved off the
\* baseline
C10_Witness ==
    /\ lastOp.op = "pinch"
    /\ lastOp.a = 3
    /\ lastOp.k # initialScale
    /\ lastOp.k # zoomK
    /\ zoomK = 3 * initialScale

\* C11: between callbacks the projection's scale is the base clip radius
\* (height - 20) / 2 = 390 times the zoom scale k, and the render group is
\* shown at the same k about the fixed centre (width/2, height/2).
C11_ScaleInStep ==
    /\ projection.scale = 390 * zoomK
    /\ groupScale(gScale) = zoomK
    /\ groupTransform(groupScale(gScale), << width \div 2, height \div 2 >>)
           = << (width \div 2) * Fix, (height \div 2) * Fix >>

\* a pinch took the zoom from below 1 to the upper limit
C11_Witness ==
    /\ lastOp.op = "pinch"
    /\ lastOp.k < IdentityK
    /\ zoomK = KMax
    /\ gScale = KMax
    /\ projection.scale = 390 * KMax

\* C12: when any handler has completed, the projection's rotation equals
\* rotation and every country path and label that exists was computed from
\* the current rotation and scale; this includes shapes created by a fetch
\* that resolved after zoom events.
C12_FullRedraw ==
    /\ projection.rotate = rotation
    /\ shapes # << >> =>
           shapes[1] = [ rotate |-> rotation, scale |-> 390 * zoomK ]

\* the fetch resolved after a zoom event: the shapes are created at the
\* scale of that moment, not at the initial one
C12_Witness ==
    /\ lastOp.op = "settle"
    /\ fetch = "loaded"
    /\ zoomK # IdentityK
    /\ shapes # << >>
    /\ shapes[1].scale = 390 * zoomK
    /\ shapes[1].scale # 390 * IdentityK

\* C13: the tick ring has exactly one radial line for every degree i in
\* {0, 5, ..., 355} (72 lines) and a label exactly for the multiples of 10
\* (36 labels); the inner radius of a line is that of the first tier that
\* matches among multiple of 60, of 30, of 10, otherwise, so a line of an
\* earlier tier is never shorter than one of a later tier, and every line
\* ends on the clip radius.
C13_Tier(i) ==
    IF i % 60 = 0 THEN 1 ELSE IF i % 30 = 0 THEN 2 ELSE IF i % 10 = 0 THEN 3 ELSE 4

C13_Lengths(t) ==
    { l.r2 - l.r1 : l \in { m \in scene.ring : C13_Tier(m.i) = t } }

C13_TickRing ==
    fetch = "loaded" =>
        /\ { l.i : l \in scene.ring } = { 5 * n : n \in 0..71 }
        /\ Cardinality(scene.ring) = 72
        /\ scene.lines = 72
        /\ { l.i : l \in { m \in scene.ring : m.text } }
               = { 10 * n : n \in 0..35 }
        /\ scene.labels = 36
        /\ \A l \in scene.ring :
               /\ l.r2 = 39000
               /\ l.r1 = CASE C13_Tier(l.i) = 1 -> 1950
                            [] C13_Tier(l.i) = 2 -> 13260
                            [] C13_Tier(l.i) = 3 -> 24960
                            [] OTHER -> 31200
        /\ \A t \in 1..3 :
               \A a \in C13_Lengths(t) : \A b \in C13_Lengths(t + 1) : a >= b

\* the ring as drawn by a fetch that succeeded: a line at 180 of the first
\* tier, one at 90 of the second and one at 355 of the last
C13_Witness ==
    /\ fetch = "loaded"
    /\ \E l \in scene.ring : l.i = 180 /\ l.r1 = 1950 /\ l.text
    /\ \E l \in scene.ring : l.i = 90 /\ l.r1 = 13260 /\ l.text
    /\ \E l \in scene.ring : l.i = 355 /\ l.r1 = 31200 /\ ~l.text

\* C14: a wheel-zoom, pinchstart or pinch event leaves rotation and the
\* coordinate readout unchanged, and a panstart or panmove event leaves the
\* zoom scale and the pinch baseline unchanged.
C14_StreamsIndependent ==
    [][ /\ ( \/ \E f \in WheelFactors : Wheel(f)
             \/ ZoomDrag
             \/ PinchStart
             \/ \E r \in PinchRatios : Pinch(r) ) =>
                 /\ rotation' = rotation
                 /\ coordinates' = coordinates
        /\ ( \/ PanStart
             \/ \E ev \in PanDeltas : PanMove(ev) ) =>
                 /\ zoomK' = zoomK
                 /\ initialScale' = initialScale ]_vars

\* a pan tick turned the globe at a zoom and a pinch baseline that earlier
\* zoom events had moved off 1 and off each other
C14_Witness ==
    /\ lastOp.op = "panmove"
    /\ rotation[1] # InitYaw
    /\ zoomK # IdentityK
    /\ initialScale # IdentityK
    /\ initialScale # zoomK
    /\ lastOp.k = zoomK

\* C15: the pan and pinch handlers exist only once the fetch has resolved
\* successfully, the zoom behaviour from mount on: until then, and for ever
\* when the fetch fails, rotation keeps its initial value whatever gestures
\* arrive, while a wheel zoom can already change the zoom scale.
C15_RotationNeedsData ==
    fetch # "loaded" =>
        /\ rotation = << InitYaw, InitPitch, 0 >>
        /\ coordinates = << InitYaw, InitPitch >>
        /\ ~panning
        /\ ~pinching
        /\ initialScale = IdentityK

\* after a failed fetch a wheel event zoomed the map, the rotation still
\* being the initial one
C15_Witness ==
    /\ fetch = "failed"
    /\ lastOp.op = "wheel"
    /\ zoomK # IdentityK
    /\ gScale = zoomK
    /\ rotation = << InitYaw, InitPitch, 0 >>

\* C16: within one pan gesture at a constant zoom, once the cumulative delta
\* is back at (0, 0) the yaw is again the yaw at gesture start, in all cases,
\* and so is the pitch provided no tick's unclamped pitch left [-90, 90].
C16_ReturnRestores ==
    (panning /\ gesture.level /\ gesture.n >= 1 /\ lastDelta = << 0, 0 >>) =>
        /\ rotation[1] = gesture.yaw
        /\ gesture.exact => rotation[2] = gesture.pitch

\* a gesture went out past the pole and back to (0, 0): the yaw is restored,
\* the pitch is not
C16_Witness ==
    /\ panning
    /\ gesture.level
    /\ ~gesture.exact
    /\ gesture.n >= 2
    /\ lastOp.op = "panmove"
    /\ lastOp.a # 0
    /\ lastDelta = << 0, 0 >>
    /\ rotation[1] = gesture.yaw
    /\ rotation[2] # gesture.pitch

TypeOK ==
    /\ mounted \in BOOLEAN
    /\ fetch \in { "pending", "loaded", "failed", "ignored" }
    /\ zoomK \in Nat
    /\ errors \in Nat
    /\ events \in 0..MaxEvents
====
